---- MODULE Spec2Model ----
(***************************************************************************)
(* A model of cppcmb.hpp, the generic parser combinators for C++17.        *)
(*                                                                         *)
(* A combinator is a stateless functor (fn_wrap) from a token iterator to  *)
(* std::optional<std::pair<data, iterator>>.  The model keeps the token    *)
(* stream, the memory that lies behind its end, and the record of the      *)
(* invocation in progress.  Compile-time types are run-time tags here:     *)
(* every datum is a record with one field that names its type.             *)
(***************************************************************************)
EXTENDS Integers, Sequences, FiniteSets, TLC

\* Longest token stream.
MaxLen == 2
\* Most tokens' worth of readable memory behind the end of the stream.
MaxOver == 1
\* Most elements a repetition collects before the model stops following it.
MaxRep == 4
\* Longest collection handed to a fold.
MaxColl == 2
\* Token values.
Tokens == {1, 2}

VARIABLES
    tokens,   \* the token stream the iterators range over
    beyond,   \* what lies in memory behind the end of the stream
    pc,       \* "idle", "returned", "crashed", "rep_loop", "rep1_check"
    call,     \* the invocation in progress or last made: the function, the
              \* combinator or mapper, the position or the arguments given
    ret,      \* what the last invocation returned
    calls,    \* the invocations the called function itself made, in order
    result,   \* cmb_rep_fn: the collection (local `result`)
    it        \* cmb_rep_fn: the iterator (parameter `it`, reassigned)

vars == <<tokens, beyond, pc, call, ret, calls, result, it>>

(***************************************************************************)
(* Data.  std::tuple is a value group; everything else is a bare datum.    *)
(***************************************************************************)
Atom(x) == [atom |-> x]
Tuple(s) == [tuple |-> s]
Optional(s) == [opt |-> s]
Collection(s) == [coll |-> s]

is_tuple(v) == DOMAIN v = {"tuple"}
is_collection(v) == DOMAIN v = {"coll"}

\* std::optional: a sequence of no element (empty) or one (engaged).
nullopt == <<>>
has_value(o) == o # <<>>

\* as_tuple: a tuple is passed through, anything else becomes a 1-tuple.
as_tuple(arg) == IF is_tuple(arg) THEN arg ELSE Tuple(<<arg>>)

\* unwrap_tuple without the specialisation for std::tuple<T>.
unwrap_tuple_primary(arg) == arg

\* unwrap_tuple: a 1-tuple gives its element, anything else is passed through.
unwrap_tuple(arg) ==
    IF is_tuple(arg) /\ Len(arg.tuple) = 1 THEN arg.tuple[1] ELSE arg

\* std::tuple_cat of two tuples.
tuple_cat(a, b) == Tuple(a.tuple \o b.tuple)

\* make_result: an engaged optional of the pair (data, position).
make_result(data, pos) == <<[first |-> data, second |-> pos]>>

(***************************************************************************)
(* Iterators.  A position is an index into the stream, End() is one past   *)
(* the last token.  Reading at or behind End() is undefined behaviour: the *)
(* read yields whatever `beyond` holds there, or traps where it holds      *)
(* nothing.                                                                *)
(***************************************************************************)
Begin == 1
End == Len(tokens) + 1
Positions == Begin..End

Readable(pos) == pos >= Begin /\ pos <= Len(tokens) + Len(beyond)
Deref(pos) ==
    IF pos <= Len(tokens) THEN tokens[pos] ELSE beyond[pos - Len(tokens)]

(***************************************************************************)
(* What evaluating a function gives: it returned `ret` or the program      *)
(* crashed; `calls` are the invocations the function itself made.          *)
(***************************************************************************)
Returned(r, log) == [crash |-> FALSE, ret |-> r, calls |-> log]
Crashed(log) == [crash |-> TRUE, ret |-> nullopt, calls |-> log]
Called(C, pos) == [cmb |-> C, it |-> pos]
Mapped(M, args) == [mapper |-> M, args |-> args]

(***************************************************************************)
(* Combinator types.                                                       *)
(***************************************************************************)
Succ == [op |-> "succ"]
One == [op |-> "one"]
Opt(C) == [op |-> "opt", of |-> C]
SeqOf(kids) == [op |-> "seq", kids |-> kids]
Alt(kids) == [op |-> "alt", kids |-> kids]
Rep(C) == [op |-> "rep", of |-> C]
Rep1(C) == [op |-> "rep1", of |-> C]
Map(C, M) == [op |-> "map", of |-> C, by |-> M]
Wrap(f) == [op |-> "wrap", fn |-> f]

(***************************************************************************)
(* User functions given to wrap<Fn>: Lit(t, d) matches the token t and     *)
(* yields the datum d, of any type the user likes.                         *)
(***************************************************************************)
Lit(t, d) == [tok |-> t, data |-> d]

Pair == Tuple(<<Atom(1), Atom(2)>>)

UserFns ==
    { Lit(1, Pair),                      \* a group of two
      Lit(1, Tuple(<<Pair>>)),           \* a group of one that holds a group
      Lit(2, Tuple(<<Atom(2)>>)) }       \* a group of one

Callable(f, pos) ==
    IF pos <= Len(tokens) /\ tokens[pos] = f.tok
    THEN make_result(f.data, pos + 1)
    ELSE nullopt

(***************************************************************************)
(* Mappers: the function objects given to map.  A mapper is applied with   *)
(* std::apply to the combinator's data as a tuple; Apply gives what it     *)
(* returns: for an expected<T> a sequence of no or one datum, otherwise    *)
(* the datum.                                                              *)
(***************************************************************************)
Filter(P) == [m |-> "filter", pred |-> P]
Select(I) == [m |-> "select", idx |-> I]
Try(t, d) == [m |-> "try", tok |-> t, out |-> d]

\* User predicates: the first argument is the token t, or anything goes.
IsTok(t) == [eq |-> t]
Anything == [any |-> TRUE]
Predicate(P, args) ==
    IF DOMAIN P = {"any"} THEN TRUE
    ELSE args # <<>> /\ args[1] = Atom(P.eq)

\* filter_impl::operator()
filter_impl(P, args) ==
    IF Predicate(P, args) THEN <<unwrap_tuple(Tuple(args))>> ELSE <<>>

\* select_impl::operator(): std::get<Indicies>... of the arguments.
select_impl(Indicies, args) ==
    unwrap_tuple(Tuple([k \in 1..Len(Indicies) |-> args[Indicies[k] + 1]]))

\* A user function that returns expected<T>: d for the token t, else nothing.
try_fn(M, args) ==
    IF args # <<>> /\ args[1] = Atom(M.tok) THEN <<M.out>> ELSE <<>>

\* The mapper's return type is expected<T> (cmb_map_fn's transform_result).
IsExpected(M) == M.m \in {"filter", "try"}

\* The call compiles: every index selected is an argument.
Accepts(M, args) ==
    M.m = "select" => \A k \in 1..Len(M.idx) : M.idx[k] + 1 <= Len(args)

Apply(M, args) ==
    CASE M.m = "filter" -> filter_impl(M.pred, args)
      [] M.m = "select" -> select_impl(M.idx, args)
      [] M.m = "try" -> try_fn(M, args)

(***************************************************************************)
(* Folds.  A folder is the user's binary function: "sub" subtracts two     *)
(* numbers, "snoc" appends its second argument to the collection that is   *)
(* its first, "cons" puts its first argument in front of the collection    *)
(* that is its second.                                                     *)
(***************************************************************************)
Sub == [folder |-> "sub"]
Snoc == [folder |-> "snoc"]
Cons == [folder |-> "cons"]

Folder(F, a, b) ==
    CASE F = Sub -> Atom(a.atom - b.atom)
      [] F = Snoc -> Collection(Append(a.coll, b))
      [] F = Cons -> Collection(<<a>> \o b.coll)

Foldl(F) == [m |-> "foldl", by |-> F]
Foldr(F) == [m |-> "foldr", by |-> F]

\* What a fold gives: the value returned and the calls of the folder made.
Folded(v, log) == [crash |-> FALSE, ret |-> <<v>>, calls |-> log]

\* foldl_impl::operator(): for (it = cbegin(rest); it != cend(rest); ++it)
RECURSIVE foldl_loop(_, _, _, _, _)
foldl_loop(F, first, rest, i, log) ==
    IF i > Len(rest.coll) THEN Folded(first, log)
    ELSE foldl_loop(F, Folder(F, first, rest.coll[i]), rest, i + 1,
                    Append(log, Mapped(F, <<first, rest.coll[i]>>)))

foldl_impl(F, first, rest) == foldl_loop(F, first, rest, 1, <<>>)

\* foldr_impl::operator(): for (it = crbegin(rest); it != crend(rest); ++it),
\* where rest is the first parameter and first is the second.
RECURSIVE foldr_loop(_, _, _, _, _)
foldr_loop(F, rest, first, i, log) ==
    IF i < 1 THEN Folded(first, log)
    ELSE foldr_loop(F, rest, Folder(F, rest.coll[i], first), i - 1,
                    Append(log, Mapped(F, <<rest.coll[i], first>>)))

\* foldr_impl with cbegin and cend for crbegin and crend.
foldr_impl_forward(F, rest, first) == foldl_loop(F, first, rest, 1, <<>>)

foldr_impl(F, rest, first) == foldr_loop(F, rest, first, Len(rest.coll), <<>>)

RECURSIVE Invoke(_, _)
RECURSIVE cmb_seq_fn(_, _)
RECURSIVE cmb_alt_fn(_, _)
RECURSIVE cmb_map_fn(_, _, _)

\* cmb_succ_fn
cmb_succ_fn(pos) == Returned(make_result(Tuple(<<>>), pos), <<>>)

\* cmb_one_fn: *it and std::next(it), with no check against the end.
cmb_one_fn(pos) ==
    IF Readable(pos)
    THEN Returned(make_result(Atom(Deref(pos)), pos + 1), <<>>)
    ELSE Crashed(<<>>)

\* cmb_opt_fn that passes the combinator's failure on.
cmb_opt_fn_failing(Combinator, pos) ==
    LET res == Invoke(Combinator, pos)
        log == <<Called(Combinator, pos)>>
    IN  IF res.crash THEN Crashed(log)
        ELSE IF ~has_value(res.ret) THEN Returned(nullopt, log)
        ELSE Returned(make_result(Optional(<<res.ret[1].first>>),
                                  res.ret[1].second), log)

\* cmb_opt_fn
cmb_opt_fn(Combinator, pos) ==
    LET res == Invoke(Combinator, pos)
        log == <<Called(Combinator, pos)>>
    IN  IF res.crash THEN Crashed(log)
        ELSE IF ~has_value(res.ret)
        THEN Returned(make_result(Optional(<<>>), pos), log)
        ELSE Returned(make_result(Optional(<<res.ret[1].first>>),
                                  res.ret[1].second), log)

\* cmb_seq_fn that applies Rest... at `it`, not at first->second.
cmb_seq_fn_same_position(Combinators, pos) ==
    IF Combinators = <<>>
    THEN Returned(make_result(Tuple(<<>>), pos), <<>>)
    ELSE
    LET First == Head(Combinators)
        Rest == Tail(Combinators)
        first == Invoke(First, pos)
        log1 == <<Called(First, pos)>>
    IN  IF first.crash THEN Crashed(log1)
        ELSE IF ~has_value(first.ret) THEN Returned(nullopt, log1)
        ELSE
        LET rest == cmb_seq_fn(Rest, pos)
            log == log1 \o rest.calls
        IN  IF rest.crash THEN Crashed(log)
            ELSE IF ~has_value(rest.ret) THEN Returned(nullopt, log)
            ELSE Returned(
                    make_result(
                        unwrap_tuple(tuple_cat(
                            as_tuple(first.ret[1].first),
                            as_tuple(rest.ret[1].first))),
                        rest.ret[1].second),
                    log)

\* cmb_seq_fn: the two overloads, on no combinator and on First, Rest...
cmb_seq_fn(Combinators, pos) ==
    IF Combinators = <<>>
    THEN Returned(make_result(Tuple(<<>>), pos), <<>>)
    ELSE
    LET First == Head(Combinators)
        Rest == Tail(Combinators)
        first == Invoke(First, pos)
        log1 == <<Called(First, pos)>>
    IN  IF first.crash THEN Crashed(log1)
        ELSE IF ~has_value(first.ret) THEN Returned(nullopt, log1)
        ELSE
        LET rest == cmb_seq_fn(Rest, first.ret[1].second)
            log == log1 \o rest.calls
        IN  IF rest.crash THEN Crashed(log)
            ELSE IF ~has_value(rest.ret) THEN Returned(nullopt, log)
            ELSE Returned(
                    make_result(
                        unwrap_tuple(tuple_cat(
                            as_tuple(first.ret[1].first),
                            as_tuple(rest.ret[1].first))),
                        rest.ret[1].second),
                    log)

\* cmb_alt_fn that tries Rest... before First.
cmb_alt_fn_last_wins(Alternatives, pos) ==
    IF Alternatives = <<>>
    THEN Returned(nullopt, <<>>)
    ELSE
    LET First == Head(Alternatives)
        Rest == Tail(Alternatives)
        rest == cmb_alt_fn(Rest, pos)
        first == Invoke(First, pos)
        log == Append(rest.calls, Called(First, pos))
    IN  IF rest.crash THEN rest
        ELSE IF has_value(rest.ret) THEN rest
        ELSE IF first.crash THEN Crashed(log)
        ELSE Returned(first.ret, log)

\* cmb_alt_fn: the two overloads, on no alternative and on First, Rest...
cmb_alt_fn(Alternatives, pos) ==
    IF Alternatives = <<>>
    THEN Returned(nullopt, <<>>)
    ELSE
    LET First == Head(Alternatives)
        Rest == Tail(Alternatives)
        first == Invoke(First, pos)
        log1 == <<Called(First, pos)>>
    IN  IF first.crash THEN Crashed(log1)
        ELSE IF has_value(first.ret) THEN Returned(first.ret, log1)
        ELSE
        LET rest == cmb_alt_fn(Rest, pos)
        IN  [rest EXCEPT !.calls = log1 \o rest.calls]

\* cmb_map_impl<RetTy, ...>::pass: the mapper cannot fail.
cmb_map_pass(res, Mapper, log) ==
    IF has_value(res)
    THEN LET args == as_tuple(res[1].first).tuple
         IN  Returned(make_result(unwrap_tuple(Apply(Mapper, args)),
                                  res[1].second),
                      Append(log, Mapped(Mapper, args)))
    ELSE Returned(nullopt, log)

\* cmb_map_impl<expected<T>, ...>::pass that keeps the combinator's result
\* where the mapper fails.
cmb_map_pass_expected_keeping(res, Mapper, log) ==
    IF has_value(res)
    THEN LET args == as_tuple(res[1].first).tuple
             transformed == Apply(Mapper, args)
             log2 == Append(log, Mapped(Mapper, args))
         IN  IF has_value(transformed)
             THEN Returned(make_result(unwrap_tuple(transformed[1]),
                                       res[1].second), log2)
             ELSE Returned(res, log2)
    ELSE Returned(nullopt, log)

\* cmb_map_impl<expected<T>, ...>::pass: the mapper can fail.
cmb_map_pass_expected(res, Mapper, log) ==
    IF has_value(res)
    THEN LET args == as_tuple(res[1].first).tuple
             transformed == Apply(Mapper, args)
             log2 == Append(log, Mapped(Mapper, args))
         IN  IF has_value(transformed)
             THEN Returned(make_result(unwrap_tuple(transformed[1]),
                                       res[1].second), log2)
             ELSE Returned(nullopt, log2)
    ELSE Returned(nullopt, log)

\* cmb_map_fn: picks the implementation by the mapper's return type.
cmb_map_fn(Combinator, Mapper, pos) ==
    LET res == Invoke(Combinator, pos)
        log == <<Called(Combinator, pos)>>
    IN  IF res.crash THEN Crashed(log)
        ELSE IF IsExpected(Mapper)
        THEN cmb_map_pass_expected(res.ret, Mapper, log)
        ELSE cmb_map_pass(res.ret, Mapper, log)

\* fn_wrap<Callable, TokenIterator>::operator(): the call of a combinator.
Invoke(C, pos) ==
    CASE C.op = "succ" -> cmb_succ_fn(pos)
      [] C.op = "one" -> cmb_one_fn(pos)
      [] C.op = "opt" -> cmb_opt_fn(C.of, pos)
      [] C.op = "seq" -> cmb_seq_fn(C.kids, pos)
      [] C.op = "alt" -> cmb_alt_fn(C.kids, pos)
      [] C.op = "map" -> cmb_map_fn(C.of, C.by, pos)
      [] C.op = "wrap" -> Returned(Callable(C.fn, pos), <<>>)

(***************************************************************************)
(* The combinators the model invokes.                                      *)
(***************************************************************************)
Leaves == {Succ, One} \cup {Wrap(f) : f \in UserFns}
Pairs == {SeqOf(<<a, b>>) : a, b \in Leaves}
\* Lists of combinators that hold at most three leaves between them.
Lists ==
    {<<>>}
    \cup {<<a>> : a \in Leaves \cup Pairs}
    \cup {<<a, b>> : a, b \in Leaves}
    \cup {<<a, b>> : a \in Pairs, b \in Leaves}
    \cup {<<a, b>> : a \in Leaves, b \in Pairs}
    \cup {<<a, b, c>> : a, b, c \in Leaves}

Mappers ==
    { Filter(IsTok(1)), Filter(Anything),
      Select(<<0>>), Select(<<1, 0>>),
      Try(1, Atom(2)), Try(1, Tuple(<<Atom(2)>>)), Try(2, Pair) }

\* fn_wrap::data_type, as far as the model needs it: the shape of the data
\* of a leaf or of a sequence of leaves (a token stands for its type).
RECURSIVE data_type(_)
RECURSIVE seq_data_type(_)
data_type(C) ==
    CASE C.op = "succ" -> Tuple(<<>>)
      [] C.op = "one" -> Atom(1)
      [] C.op = "wrap" -> C.fn.data
      [] C.op = "seq" -> seq_data_type(C.kids)
seq_data_type(Cs) ==
    IF Cs = <<>> THEN Tuple(<<>>)
    ELSE unwrap_tuple(tuple_cat(as_tuple(data_type(Head(Cs))),
                                as_tuple(seq_data_type(Tail(Cs)))))

\* Whether map<C, M> compiles: M takes what C yields.
MapCompiles(C, M) == Accepts(M, as_tuple(data_type(C)).tuple)

\* A stream of digits longer than MaxLen: three ones and a two.
Digits == <<1, 1, 1, 2>>

Streams == UNION {[1..n -> Tokens] : n \in 0..MaxLen} \cup {Digits}
Memory == UNION {[1..n -> Tokens] : n \in 0..MaxOver}

Idle == [fn |-> "none", callee |-> [op |-> "none"], arg |-> 0, args |-> <<>>]

Init ==
    /\ tokens \in Streams
    /\ beyond \in Memory
    /\ pc = "idle"
    /\ call = Idle
    /\ ret = nullopt
    /\ calls = <<>>
    /\ result = <<>>
    /\ it = Begin

\* A combinator is invoked by the caller, who then takes the result.
CanCall == pc = "idle"

\* The invocation of a function that does not loop: its outcome in one step.
Finish(fn, subject, pos, args, out) ==
    /\ call' = [fn |-> fn, callee |-> subject, arg |-> pos, args |-> args]
    /\ pc' = IF out.crash THEN "crashed" ELSE "returned"
    /\ ret' = out.ret
    /\ calls' = out.calls
    /\ result' = <<>>
    /\ it' = pos
    /\ UNCHANGED <<tokens, beyond>>

CallSucc ==
    /\ CanCall
    /\ \E pos \in Positions : Finish("succ", Succ, pos, <<>>, cmb_succ_fn(pos))

CallOne ==
    /\ CanCall
    /\ \E pos \in Positions : Finish("one", One, pos, <<>>, cmb_one_fn(pos))

CallOpt ==
    /\ CanCall
    /\ \E pos \in Positions, C \in Leaves \cup Pairs :
        Finish("opt", Opt(C), pos, <<>>, cmb_opt_fn(C, pos))

CallSeq ==
    /\ CanCall
    /\ \E pos \in Positions, Cs \in Lists :
        Finish("seq", SeqOf(Cs), pos, <<>>, cmb_seq_fn(Cs, pos))

CallAlt ==
    /\ CanCall
    /\ \E pos \in Positions, Cs \in Lists \ {<<>>} :
        Finish("alt", Alt(Cs), pos, <<>>, cmb_alt_fn(Cs, pos))

\* The caller is done with the result: the next invocation may follow.
Discard ==
    /\ pc = "returned"
    /\ pc' = "idle"
    /\ call' = Idle
    /\ ret' = nullopt
    /\ calls' = <<>>
    /\ result' = <<>>
    /\ it' = Begin
    /\ UNCHANGED <<tokens, beyond>>

CallMap ==
    /\ CanCall
    /\ \E pos \in Positions, C \in Leaves \cup Pairs, M \in Mappers :
        /\ MapCompiles(C, M)
        /\ Finish("map", Map(C, M), pos, <<>>, cmb_map_fn(C, M, pos))

\* Digits that are one, taken one at a time: filter over cmb_one.
OneDigit == Map(One, Filter(IsTok(1)))

\* A choice of two user functions of one data type: its value tells which
\* token it took.
EitherToken ==
    Alt(<<Wrap(Lit(1, Pair)), Wrap(Lit(2, Tuple(<<Atom(2), Atom(1)>>)))>>)

\* The combinators the model repeats.
Repeated == Leaves \cup {OneDigit, EitherToken}

\* cmb_rep_fn, entered: result is empty, it is the position given.
Enter(fn, subject, pos) ==
    /\ call' = [fn |-> fn, callee |-> subject, arg |-> pos, args |-> <<>>]
    /\ pc' = "rep_loop"
    /\ ret' = nullopt
    /\ calls' = <<>>
    /\ result' = <<>>
    /\ it' = pos
    /\ UNCHANGED <<tokens, beyond>>

CallRep ==
    /\ CanCall
    /\ \E pos \in Positions, C \in Repeated : Enter("rep", Rep(C), pos)

\* cmb_rep1_fn calls cmb_rep_fn first.
CallRep1 ==
    /\ CanCall
    /\ \E pos \in Positions, C \in Repeated : Enter("rep1", Rep1(C), pos)

\* cmb_rep_fn with a front inserter for std::back_inserter.
RepAdvanceFront ==
    /\ pc = "rep_loop"
    /\ Len(result) < MaxRep
    /\ LET res == Invoke(call.callee.of, it)
       IN  /\ ~res.crash
           /\ has_value(res.ret)
           /\ result' = <<res.ret[1].first>> \o result
           /\ it' = res.ret[1].second
           /\ calls' = Append(calls, Called(call.callee.of, it))
    /\ UNCHANGED <<tokens, beyond, pc, call, ret>>

\* cmb_rep_fn, one turn of while (true) in which the combinator succeeds.
RepAdvance ==
    /\ pc = "rep_loop"
    /\ Len(result) < MaxRep
    /\ LET res == Invoke(call.callee.of, it)
       IN  /\ ~res.crash
           /\ has_value(res.ret)
           /\ result' = Append(result, res.ret[1].first)
           /\ it' = res.ret[1].second
           /\ calls' = Append(calls, Called(call.callee.of, it))
    /\ UNCHANGED <<tokens, beyond, pc, call, ret>>

\* cmb_rep_fn that also returns when the combinator succeeded without moving
\* the iterator.
RepReturnOnNoProgress ==
    /\ pc = "rep_loop"
    /\ LET res == Invoke(call.callee.of, it)
       IN  /\ ~res.crash
           /\ ~has_value(res.ret) \/ res.ret[1].second = it
           /\ ret' = make_result(Collection(result), it)
           /\ calls' = Append(calls, Called(call.callee.of, it))
    /\ pc' = IF call.fn = "rep1" THEN "rep1_check" ELSE "returned"
    /\ UNCHANGED <<tokens, beyond, call, result, it>>

\* cmb_rep_fn, the turn in which the combinator fails: return.
RepReturn ==
    /\ pc = "rep_loop"
    /\ LET res == Invoke(call.callee.of, it)
       IN  /\ ~res.crash
           /\ ~has_value(res.ret)
           /\ ret' = make_result(Collection(result), it)
           /\ calls' = Append(calls, Called(call.callee.of, it))
    /\ pc' = IF call.fn = "rep1" THEN "rep1_check" ELSE "returned"
    /\ UNCHANGED <<tokens, beyond, call, result, it>>

\* cmb_rep_fn, the turn in which the combinator's read traps.
RepCrash ==
    /\ pc = "rep_loop"
    /\ Invoke(call.callee.of, it).crash
    /\ pc' = "crashed"
    /\ calls' = Append(calls, Called(call.callee.of, it))
    /\ UNCHANGED <<tokens, beyond, call, ret, result, it>>

\* cmb_rep1_fn without the test of res->first.empty().
Rep1CheckNothing ==
    /\ pc = "rep1_check"
    /\ pc' = "returned"
    /\ UNCHANGED <<tokens, beyond, call, ret, calls, result, it>>

\* cmb_rep1_fn, after cmb_rep_fn returned res (held in ret).
Rep1Check ==
    /\ pc = "rep1_check"
    /\ ret' = IF ret[1].first.coll = <<>> THEN nullopt ELSE ret
    /\ pc' = "returned"
    /\ UNCHANGED <<tokens, beyond, call, calls, result, it>>

\* What the model hands to a fold: numbers and collections of numbers.
Numbers == {Atom(t) : t \in Tokens}
Collections ==
    {Collection(c) : c \in UNION {[1..n -> Numbers] : n \in 0..MaxColl}}

\* foldl<Folder>()(first, rest), for the calls that compile: rest is
\* iterated, and the folder takes first and an element and gives a first.
CallFoldl ==
    /\ CanCall
    /\ \E F \in {Sub, Snoc}, rest \in Collections,
          first \in Numbers \cup Collections :
        /\ is_collection(first) <=> F = Snoc
        /\ Finish("foldl", Foldl(F), 0, <<first, rest>>,
                  foldl_impl(F, first, rest))

\* foldr<Folder>()(rest, first), for the calls that compile: rest, the first
\* argument, is iterated, and the folder takes an element and first and
\* gives a first.
CallFoldr ==
    /\ CanCall
    /\ \E F \in {Sub, Cons}, rest \in Collections,
          first \in Numbers \cup Collections :
        /\ is_collection(first) <=> F = Cons
        /\ Finish("foldr", Foldr(F), 0, <<rest, first>>,
                  foldr_impl(F, rest, first))

Next ==
    \/ Discard
    \/ CallFoldl
    \/ CallFoldr
    \/ CallMap
    \/ CallRep
    \/ CallRep1
    \/ RepAdvance
    \/ RepReturn
    \/ RepCrash
    \/ Rep1Check
    \/ CallSucc
    \/ CallOne
    \/ CallOpt
    \/ CallSeq
    \/ CallAlt

Spec == Init /\ [][Next]_vars

\* A call that has begun runs on: the loop of cmb_rep_fn takes its next turn,
\* whichever it is, and cmb_rep1_fn goes on after cmb_rep_fn returned.
FairSpec ==
    /\ Spec
    /\ WF_vars(RepAdvance)
    /\ WF_vars(RepReturn)
    /\ WF_vars(RepCrash)
    /\ WF_vars(Rep1Check)

(***************************************************************************)
(* Properties.                                                             *)
(***************************************************************************)
\* The function fn was invoked and has returned to its caller.
Done(fn) == pc = "returned" /\ call.fn = fn

\* The leaves of a list of leaves and sequences of leaves, in order.
RECURSIVE FlatList(_)
FlatList(Cs) ==
    IF Cs = <<>> THEN <<>>
    ELSE (IF Head(Cs).op = "seq" THEN Head(Cs).kids ELSE <<Head(Cs)>>)
         \o FlatList(Tail(Cs))

\* The elements a datum brings to a group: its own if it is a group.
Elements(v) == IF is_tuple(v) THEN v.tuple ELSE <<v>>

\* A group of one element stands for the element.
Bare(v) == IF is_tuple(v) /\ Len(v.tuple) = 1 THEN v.tuple[1] ELSE v

\* The datum is a group of one element that is itself a group.
NestedSingle(v) ==
    is_tuple(v) /\ Len(v.tuple) = 1 /\ is_tuple(v.tuple[1])

\* No read goes behind the end of the stream without a trap: a call that
\* has returned has then read tokens of the stream only.
NothingBeyond == beyond = <<>>

\* C1: a sequence of three combinators A, B, C gives the same outcome
\* however it is grouped: Sequence(Sequence(A,B),C), Sequence(A,Sequence(B,C))
\* and Sequence(A,B,C) all fail, or all succeed with the same flat group (the
\* values of A, B, C in order) and the same final position.  (Stated for
\* the calls that read tokens of the stream only.)
C1_SequenceAssociative ==
    (NothingBeyond /\ Done("seq") /\ Len(FlatList(call.callee.kids)) = 3) =>
        LET L == FlatList(call.callee.kids)
            A == L[1]
            B == L[2]
            C == L[3]
            left == cmb_seq_fn(<<SeqOf(<<A, B>>), C>>, call.arg)
            right == cmb_seq_fn(<<A, SeqOf(<<B, C>>)>>, call.arg)
            flat == cmb_seq_fn(<<A, B, C>>, call.arg)
        IN  /\ ~left.crash /\ left.ret = ret
            /\ ~right.crash /\ right.ret = ret
            /\ ~flat.crash /\ flat.ret = ret
            /\ has_value(ret) =>
                LET a == Invoke(A, call.arg).ret[1]
                    b == Invoke(B, a.second).ret[1]
                    c == Invoke(C, b.second).ret[1]
                IN  ret = <<[first |->
                                Bare(Tuple(Elements(Bare(a.first))
                                           \o Elements(Bare(b.first))
                                           \o Elements(Bare(c.first)))),
                             second |-> c.second]>>

\* The three groupings do agree where no combinator yields a group of one
\* element that is itself a group.
C1_AssociativeOnPlainGroups ==
    (Done("seq") /\ Len(FlatList(call.callee.kids)) = 3
        /\ \A k \in 1..3 :
            ~NestedSingle(data_type(FlatList(call.callee.kids)[k])))
    => (NothingBeyond => C1_SequenceAssociative)

\* C2: Sequence(X) returns what X returns at the same position: nothing when X
\* returns nothing, otherwise X's position and X's value, where a group of
\* one element comes back as the bare element and any other value (the empty
\* group too) as it is.
C2_SequenceOfOne ==
    (Done("seq") /\ Len(call.callee.kids) = 1) =>
        LET x == Invoke(call.callee.kids[1], call.arg).ret
        IN  /\ ret = nullopt <=> x = nullopt
            /\ has_value(ret) =>
                /\ ret[1].second = x[1].second
                /\ LET v == x[1].first
                   IN  IF is_tuple(v) /\ Len(v.tuple) = 1
                       THEN ret[1].first = v.tuple[1]
                       ELSE ret[1].first = v

\* Sequence(ConsumeOne) has returned the token as a bare value.
C2_Witness ==
    /\ Done("seq")
    /\ call.callee.kids = <<One>>
    /\ has_value(ret)
    /\ call.arg <= Len(tokens)
    /\ ret[1].first = Atom(tokens[call.arg])

\* C3: OrderedChoice(X1..Xn) returns, as it is, the result of the first Xi
\* that succeeds at the position given; every alternative tried is applied to
\* that same position, in order, none after the one that succeeds; the choice
\* returns nothing exactly when every alternative does.
C3_OrderedChoice ==
    Done("alt") =>
        LET Xs == call.callee.kids
            n == Len(calls)
        IN  /\ n >= 1 /\ n <= Len(Xs)
            /\ \A k \in 1..n : calls[k] = Called(Xs[k], call.arg)
            /\ \A k \in 1..(n - 1) : Invoke(Xs[k], call.arg).ret = nullopt
            /\ ret = Invoke(Xs[n], call.arg).ret
            /\ ret = nullopt => n = Len(Xs)

\* The first alternative failed, the second succeeded and was returned, and
\* the third would have succeeded with another result.
C3_Witness ==
    /\ Done("alt")
    /\ Len(call.callee.kids) = 3
    /\ Len(calls) = 2
    /\ has_value(ret)
    /\ LET third == Invoke(call.callee.kids[3], call.arg)
       IN  ~third.crash /\ has_value(third.ret) /\ third.ret # ret

\* C4: Optional(X) never returns nothing: where X succeeds with (v, c') it
\* returns (some(v), c'), where X fails it returns (none, c), c being the
\* position it was given.
C4_OptionalTotal ==
    Done("opt") =>
        LET x == Invoke(call.callee.of, call.arg).ret
        IN  /\ has_value(ret)
            /\ has_value(x) =>
                ret = <<[first |-> Optional(<<x[1].first>>),
                         second |-> x[1].second]>>
            /\ ~has_value(x) =>
                ret = <<[first |-> Optional(<<>>), second |-> call.arg]>>

\* Optional of a sequence whose first combinator matched and second failed
\* has returned none at the position given.
C4_Witness ==
    /\ Done("opt")
    /\ call.callee.of.op = "seq"
    /\ has_value(Invoke(call.callee.of.kids[1], call.arg).ret)
    /\ ret = <<[first |-> Optional(<<>>), second |-> call.arg]>>

\* C5: RepeatZeroOrMore(X), when it returns, returns a result; RepeatOneOrMore
\* (X) at c returns nothing exactly when X fails at c, and otherwise returns
\* what RepeatZeroOrMore(X) returned: the collection and the position of the
\* loop.
C5_RepetitionTotality ==
    /\ Done("rep") =>
        /\ has_value(ret)
        /\ ret = <<[first |-> Collection(result), second |-> it]>>
    /\ Done("rep1") =>
        /\ ret = nullopt <=> Invoke(call.callee.of, call.arg).ret = nullopt
        /\ has_value(ret) =>
            ret = <<[first |-> Collection(result), second |-> it]>>

\* RepeatOneOrMore has returned nothing after one failed attempt, and
\* RepeatOneOrMore has returned a collection of two.
C5_Witness ==
    /\ Done("rep1")
    /\ has_value(ret)
    /\ Len(ret[1].first.coll) = 2
    /\ Len(calls) = 3

\* The result of a fallible Map(X, f) at the position given, where Shape
\* says how the value f yields comes back: nothing where X fails, and f is
\* then not called; nothing where X succeeds with (v, c') and f(v) yields
\* nothing; (Shape(w), c') where f(v) yields w.  f is called once, with the
\* elements of v as its arguments.
FallibleMapReturns(Shape(_)) ==
    (Done("map") /\ IsExpected(call.callee.by)) =>
        LET X == call.callee.of
            f == call.callee.by
            x == Invoke(X, call.arg).ret
        IN  IF ~has_value(x)
            THEN /\ ret = nullopt
                 /\ calls = <<Called(X, call.arg)>>
            ELSE LET args == Elements(x[1].first)
                     w == Apply(f, args)
                 IN  /\ calls = <<Called(X, call.arg), Mapped(f, args)>>
                     /\ w = <<>> => ret = nullopt
                     /\ w # <<>> =>
                         ret = <<[first |-> Shape(w[1]),
                                  second |-> x[1].second]>>

Same(v) == v

\* C6 as stated: where f(v) yields w, the result is (w, c').  (Stated for
\* the calls that read tokens of the stream only.)
C6_FallibleMapAsStated == NothingBeyond => FallibleMapReturns(Same)

\* C6: a fallible Map(X, f) returns nothing where X fails, without calling
\* f, and where f yields nothing for X's value; where f yields w it returns
\* X's position and w, a w that is a group of one element as the bare
\* element.  It returns a result exactly when X succeeds and f yields a value.
C6_FallibleMap == FallibleMapReturns(Bare)

\* X has succeeded and moved on, f has yielded nothing, Map has returned
\* nothing.
C6_Witness ==
    /\ Done("map")
    /\ IsExpected(call.callee.by)
    /\ has_value(Invoke(call.callee.of, call.arg).ret)
    /\ Len(calls) = 2
    /\ ret = nullopt

\* The stream holds one token and the function was called at its start.
OnOneToken(C) ==
    /\ Len(tokens) = 1
    /\ pc \in {"returned", "crashed"}
    /\ call.callee = C
    /\ call.arg = Begin

\* C7: on a stream of one token X, Sequence(ConsumeOne, ConsumeOne) at the
\* start fails, its second ConsumeOne finding no token, and OrderedChoice(
\* Sequence(ConsumeOne, ConsumeOne), ConsumeOne) at the start succeeds with
\* X and the position at the end of the stream.
C7_ChoiceOnOneToken ==
    /\ OnOneToken(SeqOf(<<One, One>>)) =>
        pc = "returned" /\ ret = nullopt
    /\ OnOneToken(Alt(<<SeqOf(<<One, One>>), One>>)) =>
        /\ pc = "returned"
        /\ ret = <<[first |-> Atom(tokens[1]), second |-> End]>>

\* C8: on the empty stream RepeatZeroOrMore(ConsumeOne) at the start ends
\* with the empty collection and the start position, and RepeatOneOrMore(
\* ConsumeOne) at the start returns nothing: the loop crashes nowhere and
\* collects nothing.
C8_RepetitionOnEmptyStream ==
    (tokens = <<>> /\ call.fn \in {"rep", "rep1"} /\ call.callee.of = One
        /\ call.arg = Begin) =>
        /\ pc # "crashed"
        /\ result = <<>>
        /\ Done("rep") => ret = <<[first |-> Collection(<<>>),
                                   second |-> Begin]>>
        /\ Done("rep1") => ret = nullopt

\* combine(...combine(combine(s, e1), e2)..., en)
RECURSIVE FoldLeft(_, _, _)
FoldLeft(F, s, es) ==
    IF es = <<>> THEN s
    ELSE Folder(F, FoldLeft(F, s, SubSeq(es, 1, Len(es) - 1)), es[Len(es)])

\* combine(e1, combine(e2, ... combine(en, s)))
RECURSIVE FoldRight(_, _, _)
FoldRight(F, s, es) ==
    IF es = <<>> THEN s
    ELSE Folder(F, Head(es), FoldRight(F, s, Tail(es)))

\* C9 as stated, for FoldRight: given the pair (initial, collection), seed
\* first and collection second, it returns combine(e1, combine(e2, ...
\* combine(en, s))).
C9_FoldRightAsStated ==
    (Done("foldr") /\ is_collection(call.args[2])) =>
        ret = <<FoldRight(call.callee.by, call.args[1], call.args[2].coll)>>

\* C9: FoldLeft takes (seed, collection) and returns combine(...combine(
\* combine(s, e1), e2)..., en), calling combine on the elements front to back;
\* FoldRight takes (collection, seed) and returns combine(e1, combine(e2, ...
\* combine(en, s))), calling combine on the elements back to front; on the
\* empty collection both return the seed.
C9_Folds ==
    /\ Done("foldl") =>
        LET s == call.args[1]
            es == call.args[2].coll
        IN  /\ ret = <<FoldLeft(call.callee.by, s, es)>>
            /\ Len(calls) = Len(es)
            /\ \A k \in 1..Len(es) : calls[k].args[2] = es[k]
            /\ es = <<>> => ret = <<s>>
    /\ Done("foldr") =>
        LET s == call.args[2]
            es == call.args[1].coll
        IN  /\ ret = <<FoldRight(call.callee.by, s, es)>>
            /\ Len(calls) = Len(es)
            /\ \A k \in 1..Len(es) : calls[k].args[1] = es[Len(es) + 1 - k]
            /\ es = <<>> => ret = <<s>>

\* FoldRight has subtracted over two different numbers.
C9_Witness ==
    /\ Done("foldr")
    /\ call.callee.by = Sub
    /\ Len(call.args[1].coll) = 2
    /\ call.args[1].coll[1] # call.args[1].coll[2]

\* The position the k-th combinator of Xs is applied at, from pos on, where
\* those before it succeed.
RECURSIVE PositionAt(_, _, _)
PositionAt(Xs, pos, k) ==
    IF k = 1 THEN pos
    ELSE Invoke(Xs[k - 1], PositionAt(Xs, pos, k - 1)).ret[1].second

\* C10: Sequence(X1..Xn) applies its combinators from left to right, each at
\* the position the one before returned, X1 at the position given.  Where Xi
\* is the first to fail the sequence returns nothing and applies none after
\* Xi; where all succeed the position returned is the one Xn returned.  With
\* no combinator it succeeds with the empty group and the position given.
C10_SequenceOrder ==
    Done("seq") =>
        LET Xs == call.callee.kids
            n == Len(calls)
            At(k) == PositionAt(Xs, call.arg, k)
        IN  /\ n <= Len(Xs)
            /\ \A k \in 1..n : calls[k] = Called(Xs[k], At(k))
            /\ \A k \in 1..(n - 1) : has_value(Invoke(Xs[k], At(k)).ret)
            /\ ret = nullopt =>
                /\ n >= 1
                /\ Invoke(Xs[n], At(n)).ret = nullopt
            /\ has_value(ret) =>
                /\ n = Len(Xs)
                /\ ret[1].second = At(n + 1)
            /\ Xs = <<>> =>
                ret = <<[first |-> Tuple(<<>>), second |-> call.arg]>>

\* Of three combinators the first succeeded and moved on, the second
\* failed, the third was not applied.
C10_Witness ==
    /\ Done("seq")
    /\ Len(call.callee.kids) = 3
    /\ Len(calls) = 2
    /\ calls[2].it > call.arg
    /\ ret = nullopt

\* The successful applications of X in a row, at most n of them, the first at
\* pos and each next one at the position the one before it returned.
RECURSIVE Chain(_, _, _)
Chain(X, pos, n) ==
    IF n = 0 THEN <<>>
    ELSE LET r == Invoke(X, pos)
         IN  IF r.crash \/ ~has_value(r.ret) THEN <<>>
             ELSE <<r.ret[1]>> \o Chain(X, r.ret[1].second, n - 1)

\* The position after the first k applications of a chain that began at c0.
ChainEnd(ch, c0, k) == IF k = 0 THEN c0 ELSE ch[k].second

\* C11: when RepeatZeroOrMore(X) returns at c0, its collection holds the
\* values v1..vk of k successful applications of X in a row, X at c0 giving
\* (v1, c1), X at c1 giving (v2, c2) and so on, in that order; X fails at ck,
\* and ck is the position returned (c0 when k = 0); X was applied at c0..ck
\* and nowhere else.  On the digits 1 1 1 2, from the start, the digits that
\* are one are collected as [1, 1, 1] and the position returned is that of
\* the 2.
C11_RepetitionCollects ==
    /\ Done("rep") =>
        LET X == call.callee.of
            c0 == call.arg
            coll == ret[1].first.coll
            k == Len(coll)
            ch == Chain(X, c0, k)
            ck == ChainEnd(ch, c0, k)
        IN  /\ has_value(ret)
            /\ Len(ch) = k
            /\ \A i \in 1..k : coll[i] = ch[i].first
            /\ ret[1].second = ck
            /\ ~Invoke(X, ck).crash
            /\ ~has_value(Invoke(X, ck).ret)
            /\ calls = [i \in 1..(k + 1) |->
                            Called(X, ChainEnd(ch, c0, i - 1))]
    /\ (/\ Done("rep")
        /\ tokens = Digits
        /\ call.callee = Rep(OneDigit)
        /\ call.arg = Begin) =>
            /\ ret = make_result(
                        Collection(<<Atom(1), Atom(1), Atom(1)>>), 4)
            /\ tokens[ret[1].second] = 2

\* The repetition of the digits that are one has returned on 1 1 1 2, from
\* the start, with three values collected.
C11_Witness ==
    /\ Done("rep")
    /\ tokens = Digits
    /\ beyond = <<>>
    /\ call.callee = Rep(OneDigit)
    /\ call.arg = Begin
    /\ Len(ret[1].first.coll) = 3

\* A repetition has returned two values that differ, from the start of a
\* stream of two tokens.
C11_WitnessOrder ==
    /\ Done("rep")
    /\ call.callee = Rep(EitherToken)
    /\ Len(ret[1].first.coll) = 2
    /\ ret[1].first.coll[1] # ret[1].first.coll[2]

\* The most applications in a row after which a combinator that has neither
\* failed nor trapped is at a position where it has been before.
Horizon == Len(tokens) + Len(beyond) + 2

\* The chain of applications of X from pos reaches, within n applications, a
\* position at which X fails.
RECURSIVE Fails(_, _, _)
Fails(X, pos, n) ==
    IF n = 0 THEN FALSE
    ELSE LET r == Invoke(X, pos)
         IN  IF r.crash THEN FALSE
             ELSE IF ~has_value(r.ret) THEN TRUE
             ELSE Fails(X, r.ret[1].second, n - 1)

\* cmb_rep_fn is in its loop, called as RepeatZeroOrMore.
InRep == pc = "rep_loop" /\ call.fn = "rep"

\* C12: RepeatZeroOrMore(X) started at c returns if and only if the chain of
\* applications of X from c reaches a position at which X fails: where it
\* does, the loop returns in the end, and a repetition that has returned had
\* such a chain.  There is no test of progress: the repetition of Succeed
\* stays at the position given, collects one value after the other for as
\* long as the model follows it, and never returns.
C12_RepetitionTermination ==
    /\ [](InRep /\ Fails(call.callee.of, it, Horizon) => <>Done("rep"))
    /\ [](Done("rep") => Fails(call.callee.of, call.arg, Horizon))
    /\ [](call.callee = Rep(Succ) =>
            /\ pc # "returned"
            /\ it = call.arg)
    /\ [](InRep /\ call.callee = Rep(Succ) =>
            <>(InRep /\ Len(result) = MaxRep))

\* The repetition of Succeed has collected as many values as the model
\* follows, and is in its loop at the position it was given.
C12_Witness ==
    /\ InRep
    /\ call.callee = Rep(Succ)
    /\ Len(result) = MaxRep
    /\ it = call.arg
    /\ Len(calls) = MaxRep

=============================================================================
